---- MODULE Spec2Model ----
(***************************************************************************)
(* A model of jlizard::ByteArray (byte-ao): the right-aligned bitwise      *)
(* algebra of ByteArrayOps, the secure erasure of security::unsafe::       *)
(* SecureErase and the resize / pad-truncate policy of ByteArray.          *)
(*                                                                         *)
(* A std::vector<unsigned char> is a record [buf, size]: buf is the        *)
(* backing storage (Len(buf) is the capacity), the first size cells are    *)
(* the elements.  A cell holds a byte 0..255 or Unwritten (storage that    *)
(* was reserved but never written).  Cells past size keep whatever was     *)
(* written to them: shrinking a vector of unsigned char writes nothing.    *)
(***************************************************************************)
EXTENDS Integers, Sequences, FiniteSets, TLC

\* ------------------------------------------------------------------ bounds
MaxLen == 2
MaxReserve == 2
MaxText == 3

\* ------------------------------------------------------- program constants
JLBA_DEFAULT_ALLOC_SIZE == 32
MSB_PAD == 1
LSB_PAD == 2
DEFAULT_PAD == LSB_PAD

Unwritten == 0 - 1

\* ------------------------------------------------------------ input sets
RECURSIVE SeqsOfLen(_, _)
SeqsOfLen(S, n) ==
  IF n = 0 THEN {<<>>}
  ELSE {Append(s, x) : s \in SeqsOfLen(S, n - 1), x \in S}

SeqsUpTo(S, n) == UNION {SeqsOfLen(S, k) : k \in 0..n}

InBytes == {0, 90, 255}
ObjBytes == {90, 255}
Operands == SeqsUpTo(InBytes, MaxLen)
ObjOperands == SeqsUpTo(ObjBytes, MaxLen)
PadDirs == {MSB_PAD, LSB_PAD}

\* ------------------------------------------------------- byte arithmetic
Max(a, b) == IF a >= b THEN a ELSE b
Min(a, b) == IF a <= b THEN a ELSE b

RECURSIVE XorBits(_, _, _)
XorBits(x, y, n) ==
  IF n = 0 THEN 0
  ELSE (((x % 2) + (y % 2)) % 2) + 2 * XorBits(x \div 2, y \div 2, n - 1)

RECURSIVE OrBits(_, _, _)
OrBits(x, y, n) ==
  IF n = 0 THEN 0
  ELSE Max(x % 2, y % 2) + 2 * OrBits(x \div 2, y \div 2, n - 1)

RECURSIVE AndBits(_, _, _)
AndBits(x, y, n) ==
  IF n = 0 THEN 0
  ELSE ((x % 2) * (y % 2)) + 2 * AndBits(x \div 2, y \div 2, n - 1)

\* unsigned char ^ unsigned char, | and &
Xor8(x, y) == XorBits(x, y, 8)
Or8(x, y) == OrBits(x, y, 8)
And8(x, y) == AndBits(x, y, 8)

\* (variant: arithmetic negation, -x, in place of ~x)
Neg8(x) == (0 - x) % 256

\* ~x on the promoted int, converted back to unsigned char
Not8(x) == ((0 - x) - 1) % 256

Zeros(n) == [i \in 1..n |-> 0]

\* ------------------------------------------------------------ std::vector
EmptyVec == [buf |-> <<>>, size |-> 0]
NoBlock == <<>>

Elems(v) == SubSeq(v.buf, 1, v.size)
Capacity(v) == Len(v.buf)

\* std::vector<unsigned char>(elems): storage of exactly Len(elems) cells
VecOf(elems) == [buf |-> elems, size |-> Len(elems)]

\* reserve(n) on an empty vector
VecReserved(n) == [buf |-> [i \in 1..n |-> Unwritten], size |-> 0]

\* (variant: a shrink that keeps the last n elements instead of the first)
VecResizeKeepTail(v, n) ==
  IF n <= v.size
    THEN [buf |-> [i \in 1..Capacity(v) |->
                     IF i <= n THEN v.buf[i + (v.size - n)] ELSE v.buf[i]],
          size |-> n]
  ELSE IF n <= Capacity(v)
    THEN [buf |-> [i \in 1..Capacity(v) |->
                     IF i > v.size /\ i <= n THEN 0 ELSE v.buf[i]],
          size |-> n]
    ELSE [buf |-> Elems(v) \o Zeros(n - v.size), size |-> n]

\* bytes_.resize(n): shrink keeps the storage, growth value-initialises the
\* new elements, growth past the capacity moves the elements to new storage
VecResize(v, n) ==
  IF n <= v.size THEN [buf |-> v.buf, size |-> n]
  ELSE IF n <= Capacity(v)
    THEN [buf |-> [i \in 1..Capacity(v) |->
                     IF i > v.size /\ i <= n THEN 0 ELSE v.buf[i]],
          size |-> n]
    ELSE [buf |-> Elems(v) \o Zeros(n - v.size), size |-> n]

\* (variant: clear() that leaves one element behind)
VecClearButOne(v) == [buf |-> v.buf, size |-> Min(v.size, 1)]

\* bytes_.clear(): the size becomes 0, the storage is kept as it is
VecClear(v) == [buf |-> v.buf, size |-> 0]

\* bytes_.insert(bytes_.end(), first, last)
VecInsertEnd(v, elems) ==
  LET n == v.size + Len(elems) IN
  IF n <= Capacity(v)
    THEN [buf |-> [i \in 1..Capacity(v) |->
                     IF i > v.size /\ i <= n THEN elems[i - v.size]
                     ELSE v.buf[i]],
          size |-> n]
    ELSE [buf |-> Elems(v) \o elems, size |-> n]

\* bytes_ = other.bytes_ (copy assignment): the storage is reused when it is
\* large enough, cells past the new size keep their old content
VecCopyAssign(v, elems) ==
  LET n == Len(elems) IN
  IF n <= Capacity(v)
    THEN [buf |-> [i \in 1..Capacity(v) |->
                     IF i <= n THEN elems[i] ELSE v.buf[i]],
          size |-> n]
    ELSE [buf |-> elems, size |-> n]

\* bytes_ = std::move(other.bytes_): the receiver adopts the other storage
VecMoveAssign(v, other) == other

\* ---------------------------------------------------------- ByteArrayOps
\* (variant: the operands aligned at index 0 instead of at their last byte)
xor_op_left_aligned(first_operand, second_operand, result_out) ==
  LET arr_size == Max(Len(first_operand), Len(second_operand))
      resized == VecResize(result_out, arr_size)
      afterFirst == [k \in 1..arr_size |->
                       IF k <= Len(first_operand)
                         THEN Xor8(0, first_operand[k]) ELSE 0]
      afterSecond == [k \in 1..arr_size |->
                        IF k <= Len(second_operand)
                          THEN Xor8(afterFirst[k], second_operand[k])
                          ELSE afterFirst[k]]
  IN [buf |-> [i \in 1..Capacity(resized) |->
                 IF i <= arr_size THEN afterSecond[i] ELSE resized.buf[i]],
      size |-> arr_size]

\* (variant: the second operand stored over the first instead of XORed in)
xor_op_second_stored(first_operand, second_operand, result_out) ==
  LET arr_size == Max(Len(first_operand), Len(second_operand))
      resized == VecResize(result_out, arr_size)
      first_offset == arr_size - Len(first_operand)
      second_offset == arr_size - Len(second_operand)
      afterFirst == [k \in 1..arr_size |->
                       IF k > first_offset
                         THEN Xor8(0, first_operand[k - first_offset])
                         ELSE 0]
      afterSecond == [k \in 1..arr_size |->
                        IF k > second_offset
                          THEN second_operand[k - second_offset]
                          ELSE afterFirst[k]]
  IN [buf |-> [i \in 1..Capacity(resized) |->
                 IF i <= arr_size THEN afterSecond[i] ELSE resized.buf[i]],
      size |-> arr_size]

\* xor_op(first_operand, second_operand, result_out): result_out is resized
\* to the longer length and zero-filled, then each operand is XORed in at
\* its own offset from the left, so that the operands end at the same index
xor_op(first_operand, second_operand, result_out) ==
  LET arr_size == Max(Len(first_operand), Len(second_operand))
      resized == VecResize(result_out, arr_size)
      first_offset == arr_size - Len(first_operand)
      second_offset == arr_size - Len(second_operand)
      afterFirst == [k \in 1..arr_size |->
                       IF k > first_offset
                         THEN Xor8(0, first_operand[k - first_offset])
                         ELSE 0]
      afterSecond == [k \in 1..arr_size |->
                        IF k > second_offset
                          THEN Xor8(afterFirst[k],
                                    second_operand[k - second_offset])
                          ELSE afterFirst[k]]
  IN [buf |-> [i \in 1..Capacity(resized) |->
                 IF i <= arr_size THEN afterSecond[i] ELSE resized.buf[i]],
      size |-> arr_size]

\* (variant: the second operand read as it was left by the zero fill)
xor_op_second_is_result_stale(first_operand, result_out) ==
  LET arr_size == Max(Len(first_operand), result_out.size)
      resized == VecResize(result_out, arr_size)
      first_offset == arr_size - Len(first_operand)
  IN [buf |-> [i \in 1..Capacity(resized) |->
                 IF i > arr_size THEN resized.buf[i]
                 ELSE IF i > first_offset
                   THEN Xor8(Xor8(0, first_operand[i - first_offset]), 0)
                   ELSE 0],
      size |-> arr_size]

\* the second loop of xor_op when second_operand is result_out itself: each
\* result_out[second_offset + i] ^= second_operand[i] reads the cell it is
\* about to write, as the loops before have left it
RECURSIVE xor_second_in_place(_, _, _)
xor_second_in_place(cells, i, second_size) ==
  IF i > second_size THEN cells
  ELSE xor_second_in_place([cells EXCEPT ![i] = Xor8(cells[i], cells[i])],
                           i + 1, second_size)

\* xor_op(first_operand, second_operand, result_out) called with
\* second_operand and result_out the same vector: the resize and the zero
\* fill act on the second operand too, and second_operand.size() is the
\* size after the resize, so second_offset is 0
xor_op_second_is_result(first_operand, result_out) ==
  LET arr_size == Max(Len(first_operand), result_out.size)
      resized == VecResize(result_out, arr_size)
      first_offset == arr_size - Len(first_operand)
      afterFirst == [k \in 1..arr_size |->
                       IF k > first_offset
                         THEN Xor8(0, first_operand[k - first_offset])
                         ELSE 0]
      afterSecond == xor_second_in_place(afterFirst, 1, arr_size)
  IN [buf |-> [i \in 1..Capacity(resized) |->
                 IF i <= arr_size THEN afterSecond[i] ELSE resized.buf[i]],
      size |-> arr_size]

\* xor_op(first_operand, second_operand) returning a new vector
xor_op_copy(first_operand, second_operand) ==
  xor_op(first_operand, second_operand, EmptyVec)

\* (variant: the byte XORed into every byte of the input)
xor_op_byte_every(input, byte, result_out) ==
  LET byte_buf == [i \in 1..Max(Len(input), 1) |-> byte]
  IN xor_op(input, byte_buf, result_out)

\* (variant: the byte applied only where the input has a last byte)
xor_op_byte_no_extend(input, byte, result_out) ==
  LET byte_buf == IF Len(input) = 0 THEN <<>> ELSE <<byte>>
  IN xor_op(input, byte_buf, result_out)

\* xor_op(input, byte, result_out): the byte is a one-element operand
xor_op_byte(input, byte, result_out) ==
  LET byte_buf == <<byte>> IN xor_op(input, byte_buf, result_out)

\* xor_op(input, byte) returning a new vector
xor_op_byte_copy(input, byte) == xor_op_byte(input, byte, EmptyVec)

\* ----------------------------------------------------- ByteArrayOps::Unsafe
\* The raw-pointer operations write into result, a span of result_size cells
\* the caller owns: result is the sequence of those cells (cell i of the code
\* is result[i + 1] here) and result_size its length. They answer with
\*   mem: the cells afterwards,
\*   oob: the indices they stored to outside [0, result_size), where the
\*        index result_size - 1 of an empty span, SIZE_MAX in size_t, is
\*        written -1: the byte in front of result.

\* (variant: the span zeroed before its size is looked at)
unsafe_xor_op_zero_first(first, second, result) ==
  [mem |-> [k \in 1..Len(result) |-> 0], oob |-> {}]

\* Unsafe::xor_op(first, first_size, second, second_size, result, result_size)
unsafe_xor_op(first, second, result) ==
  LET first_size == Len(first)
      second_size == Len(second)
      result_size == Len(result)
      required_size == Max(first_size, second_size)
  IN IF result_size < required_size
       THEN [mem |-> result, oob |-> {}]
       ELSE
         LET zeroed == [k \in 1..result_size |-> 0]
             first_offset == required_size - first_size
             second_offset == required_size - second_size
             afterFirst ==
               [k \in 1..result_size |->
                  IF k > first_offset /\ k <= first_offset + first_size
                    THEN first[k - first_offset] ELSE zeroed[k]]
             afterSecond ==
               [k \in 1..result_size |->
                  IF k > second_offset /\ k <= second_offset + second_size
                    THEN Xor8(afterFirst[k], second[k - second_offset])
                    ELSE afterFirst[k]]
         IN [mem |-> afterSecond, oob |-> {}]

\* (variant: the byte XORed into every byte copied from the input)
unsafe_xor_op_byte_every(input, byte, result) ==
  IF Len(result) < Len(input)
    THEN [mem |-> result, oob |-> {}]
    ELSE [mem |-> [k \in 1..Len(result) |->
                     IF k > Len(result) - Len(input)
                       THEN Xor8(input[k - (Len(result) - Len(input))], byte)
                       ELSE 0],
          oob |-> {}]

\* Unsafe::xor_op(input, input_size, byte, result, result_size)
unsafe_xor_op_byte(input, byte, result) ==
  LET input_size == Len(input)
      result_size == Len(result)
  IN IF result_size < input_size
       THEN [mem |-> result, oob |-> {}]
       ELSE
         LET zeroed == [k \in 1..result_size |-> 0]
             input_offset == result_size - input_size
             afterCopy ==
               [k \in 1..result_size |->
                  IF k > input_offset THEN input[k - input_offset]
                  ELSE zeroed[k]]
         IN IF result_size >= 1
              THEN [mem |-> [afterCopy EXCEPT ![result_size] =
                                       Xor8(afterCopy[result_size], byte)],
                    oob |-> {}]
              ELSE [mem |-> afterCopy, oob |-> {0 - 1}]

\* Unsafe::complement(in, out, length) with in and out two buffers, either
\* of which may be the null pointer:
\*   mem: the cells of out afterwards, asserted: whether every
\*   (out[i] & in[i]) == 0 of the second loop held
unsafe_complement(in, out, in_null, out_null) ==
  IF out_null \/ in_null
    THEN [mem |-> out, asserted |-> TRUE]
    ELSE LET length == Len(in)
             written == [i \in 1..length |-> Not8(in[i])]
         IN [mem |-> written,
             asserted |-> \A i \in 1..length : And8(written[i], in[i]) = 0]

\* Unsafe::complement(buf, buf, length): in and out are the same cells, so
\* the second loop reads in[i] as the first loop has stored it
unsafe_complement_in_place(buf) ==
  LET length == Len(buf)
      written == [i \in 1..length |-> Not8(buf[i])]
  IN [mem |-> written,
      asserted |-> \A i \in 1..length : And8(written[i], written[i]) = 0]

complement_throws_never(in) == FALSE

\* complement(in, out) throws std::invalid_argument on an empty input
complement_throws(in) == Len(in) = 0

\* complement(in, out): out is resized to the input and out[i] = ~in[i]
complement(in, out) ==
  LET resized == VecResize(out, Len(in)) IN
  [buf |-> [i \in 1..Capacity(resized) |->
              IF i <= Len(in) THEN Not8(in[i]) ELSE resized.buf[i]],
   size |-> Len(in)]

\* complement(in) returning a new vector
complement_copy(in) == complement(in, EmptyVec)

\* ---------------------------------------------------------- SecureErase
Options(verify, throw_on_failure) ==
  [verify_after_erase |-> verify,
   throw_on_verification_failure |-> throw_on_failure]

\* secure_zero_raw_(ptr, len): every branch of the platform selection
\* (SecureZeroMemory, memset_s, explicit_bzero, the three-pass volatile
\* overwrite ending in 0x00) leaves the len bytes at ptr zero
secure_zero_raw_(buf, len) ==
  [i \in 1..Len(buf) |-> IF i <= len THEN 0 ELSE buf[i]]

\* the loop of verify_zeroed_: result |= p[i] for every i < len
\* (variant: the scan stopped at the first byte that is not zero)
RECURSIVE verify_loop_early_exit(_, _, _, _)
verify_loop_early_exit(p, i, len, result) ==
  IF i > len THEN [result |-> result, reads |-> <<>>]
  ELSE IF p[i] # 0 THEN [result |-> Or8(result, p[i]), reads |-> <<i>>]
  ELSE LET rest == verify_loop_early_exit(p, i + 1, len, Or8(result, p[i]))
       IN [result |-> rest.result, reads |-> <<i>> \o rest.reads]

\*   result: the accumulated byte, reads: the indices read, in order
RECURSIVE verify_loop(_, _, _, _)
verify_loop(p, i, len, result) ==
  IF i > len THEN [result |-> result, reads |-> <<>>]
  ELSE LET rest == verify_loop(p, i + 1, len, Or8(result, p[i]))
       IN [result |-> rest.result, reads |-> <<i>> \o rest.reads]

\* (variant: the scan reports zeros without looking)
verify_zeroed_unchecked(p, len) == TRUE

verify_zeroed_(p, len) == verify_loop(p, 1, len, 0).result = 0

\* what the erase primitive leaves behind. Its code stores zeros on every
\* platform; the header names, as outside the library's control, a build
\* whose optimizer removes the stores, and the verification scan exists to
\* catch that: "elided" is that build, the bytes left as they were.
EraseEffects == {"zeroed", "elided"}

secure_zero_raw_effect(buf, len, effect) ==
  IF effect = "zeroed" THEN secure_zero_raw_(buf, len) ELSE buf

\* (variant: the storage is zeroed but the swap that releases it is missing)
secure_zero_vector_no_swap(vec, options) ==
  IF vec.size = 0
    THEN [vec |-> vec, ret |-> TRUE, threw |-> FALSE,
          freed |-> FALSE, block |-> NoBlock]
    ELSE [vec |-> [buf |-> secure_zero_raw_(vec.buf, vec.size),
                   size |-> vec.size],
          ret |-> TRUE, threw |-> FALSE, freed |-> FALSE, block |-> NoBlock]

\* secure_zero_vector(vec, options): an empty vector returns true at once;
\* otherwise the size() elements are zeroed in place, verified if asked,
\* and the storage is released by the swap with an empty vector.
\*   vec: the vector afterwards, ret: the value returned, threw: whether
\*   ErasureVerificationError was thrown, freed: whether storage was
\*   released, block: the released storage as it was when released
secure_zero_vector_effect(vec, options, effect) ==
  IF vec.size = 0
    THEN [vec |-> vec, ret |-> TRUE, threw |-> FALSE,
          freed |-> FALSE, block |-> NoBlock]
    ELSE
      LET total_size == vec.size
          zeroed == [buf |-> secure_zero_raw_effect(vec.buf, total_size,
                                                    effect),
                     size |-> vec.size]
          verified == IF options.verify_after_erase
                        THEN verify_zeroed_(zeroed.buf, total_size)
                        ELSE TRUE
      IN IF options.verify_after_erase /\ ~verified
              /\ options.throw_on_verification_failure
           THEN [vec |-> zeroed, ret |-> FALSE, threw |-> TRUE,
                 freed |-> FALSE, block |-> NoBlock]
           ELSE [vec |-> EmptyVec, ret |-> verified, threw |-> FALSE,
                 freed |-> TRUE, block |-> zeroed.buf]

\* secure_zero_vector(vec, options) as built: the erase primitive stores
secure_zero_vector(vec, options) ==
  secure_zero_vector_effect(vec, options, "zeroed")

\* secure_zero<T>(obj, options) on the sizeof(T) bytes of obj: erased, then
\* scanned if asked; a failed scan throws if asked to and is returned as
\* false otherwise; without the scan the answer is true
secure_zero(obj, options, effect) ==
  LET erased == secure_zero_raw_effect(obj, Len(obj), effect) IN
  IF options.verify_after_erase
    THEN LET verified == verify_zeroed_(erased, Len(obj)) IN
         IF ~verified /\ options.throw_on_verification_failure
           THEN [obj |-> erased, ret |-> FALSE, threw |-> TRUE]
           ELSE [obj |-> erased, ret |-> verified, threw |-> FALSE]
    ELSE [obj |-> erased, ret |-> TRUE, threw |-> FALSE]

\* (variant: the storage released before it is scanned)
secure_zero_vector_next_swap_first(pc, options, verified) ==
  IF pc = "zero" THEN "swap"
  ELSE IF pc = "swap"
    THEN IF options.verify_after_erase THEN "verify" ELSE "done"
  ELSE "done"

\* the statements of secure_zero_vector on a non-empty vector, in the order
\* the code has them: "zero" (secure_zero_raw_), "verify" (the scan inside
\* if (options.verify_after_erase), with its throw), "swap" (the swap with
\* an empty vector), "done" (the return or the throw). This is the
\* statement that follows pc.
secure_zero_vector_next(pc, options, verified) ==
  IF pc = "zero"
    THEN IF options.verify_after_erase THEN "verify" ELSE "swap"
  ELSE IF pc = "verify"
    THEN IF ~verified /\ options.throw_on_verification_failure
           THEN "done" ELSE "swap"
  ELSE "done"

\* ByteArray::secure_wipe(): secure_zero_vector(bytes_, Options(true))
secure_wipe(vec) == secure_zero_vector(vec, Options(TRUE, TRUE))

\* (variant: the wipe reporting a failed verification by its return value)
secure_wipe_no_throw(vec, effect) ==
  secure_zero_vector_effect(vec, Options(TRUE, FALSE), effect)

\* ByteArray::secure_wipe() when the stores of the erase have the given effect
secure_wipe_effect(vec, effect) ==
  secure_zero_vector_effect(vec, Options(TRUE, TRUE), effect)

\* ------------------------------------------------- partial copy and resize
\* (variant: the copy taken from the end of other instead of its start)
PartialCopyLSB_from_end(other, num_bytes) ==
  LET copy_size == Min(Len(other), num_bytes) IN
  [i \in 1..num_bytes |->
     IF i <= copy_size THEN other[i + (Len(other) - copy_size)] ELSE 0]

\* (variant: the new buffer sized to the copied bytes, without the padding)
PartialCopyLSB_unpadded(other, num_bytes) ==
  LET copy_size == Min(Len(other), num_bytes) IN
  [i \in 1..copy_size |-> other[i]]

\* ByteArray(other, num_bytes): num_bytes zero bytes, then the first
\* min(other.size(), num_bytes) bytes of other copied to the front
PartialCopyLSB(other, num_bytes) ==
  LET copy_size == Min(Len(other), num_bytes) IN
  [i \in 1..num_bytes |-> IF i <= copy_size THEN other[i] ELSE 0]

\* ByteArray(other, num_bytes, MSB_PAD): zeros at the front when extending,
\* the last num_bytes bytes of other when truncating
PartialCopyMSB(other, num_bytes) ==
  IF num_bytes >= Len(other)
    THEN [i \in 1..num_bytes |->
            IF i > num_bytes - Len(other)
              THEN other[i - (num_bytes - Len(other))] ELSE 0]
    ELSE [i \in 1..num_bytes |-> other[i + (Len(other) - num_bytes)]]

\* ByteArray(other, num_bytes, zero_pad_dir)
PartialCopy(other, num_bytes, zero_pad_dir) ==
  IF zero_pad_dir = MSB_PAD THEN PartialCopyMSB(other, num_bytes)
  ELSE PartialCopyLSB(other, num_bytes)

\* resize without purge and MSB_PAD, in place: zeros are inserted at the
\* front when growing, elements are erased from the front when shrinking
\* (the elements move down, the cells past the new size keep their content)
VecResizeMSB(v, n) ==
  IF n >= v.size
    THEN IF n <= Capacity(v)
           THEN [buf |-> [i \in 1..Capacity(v) |->
                            IF i <= n THEN PartialCopyMSB(Elems(v), n)[i]
                            ELSE v.buf[i]],
                 size |-> n]
           ELSE VecOf(PartialCopyMSB(Elems(v), n))
    ELSE [buf |-> [i \in 1..Capacity(v) |->
                     IF i <= n THEN v.buf[i + (v.size - n)] ELSE v.buf[i]],
          size |-> n]

\* (variant: the warning on every shrink, purging or not)
resize_warns_without_purge(v, new_size, purge_before_resize, output_warning) ==
  output_warning /\ new_size < v.size

\* the condition under which resize writes the SECURITY WARNING to stderr
resize_warns(v, new_size, purge_before_resize, output_warning) ==
  purge_before_resize /\ output_warning /\ new_size < v.size

\* ByteArray::resize(new_size, purge_before_resize, output_warning, dir).
\* With purge: temp(*this, new_size, dir); secure_wipe(); *this = temp.
\* Without: the vector is resized in place.  The direction is the declared
\* fourth parameter; it selects PartialCopyMSB / VecResizeMSB, which follow
\* the documented contract of MSB_PAD, and otherwise the code as written.
\*   vec: the vector afterwards, threw / freed / block: from secure_wipe
resize(v, new_size, purge_before_resize, zero_pad_dir) ==
  IF purge_before_resize
    THEN LET temp == PartialCopy(Elems(v), new_size, zero_pad_dir)
             wipe == secure_wipe(v)
         IN IF wipe.threw
              THEN [vec |-> wipe.vec, threw |-> TRUE,
                    freed |-> FALSE, block |-> NoBlock]
              ELSE [vec |-> VecCopyAssign(wipe.vec, temp), threw |-> FALSE,
                    freed |-> wipe.freed, block |-> wipe.block]
    ELSE [vec |-> IF zero_pad_dir = MSB_PAD THEN VecResizeMSB(v, new_size)
                  ELSE VecResize(v, new_size),
          threw |-> FALSE, freed |-> FALSE, block |-> NoBlock]

\* ------------------------------------------------------ uint64_t interop
\* A uint64_t is held as its UINT64_BYTES base-256 digits, most significant
\* first, so that all 64 bits are kept: value >> 8 and value << 8 move the
\* digits by one place and drop the digit that leaves the register.
UINT64_BYTES == 8

U64Zero == Zeros(UINT64_BYTES)

\* value >> (n * 8)
ShiftRightBytes(value, n) ==
  Zeros(n) \o SubSeq(value, 1, UINT64_BYTES - n)

\* value << 8
ShiftLeft8(value) == SubSeq(value, 2, UINT64_BYTES) \o <<0>>

\* value | byte
OrByte(value, byte) ==
  [value EXCEPT ![UINT64_BYTES] = Or8(value[UINT64_BYTES], byte)]

\* value & 0xFF
LowByte(value) == And8(value[UINT64_BYTES], 255)

\* do { bytes_needed++; temp >>= 8; } while (temp != 0);
RECURSIVE count_bytes_needed(_, _)
count_bytes_needed(temp, bytes_needed) ==
  LET temp_next == ShiftRightBytes(temp, 1) IN
  IF temp_next # U64Zero
    THEN count_bytes_needed(temp_next, bytes_needed + 1)
    ELSE bytes_needed + 1

\* (variant: all eight bytes of the value written, leading zeros included)
uint64_to_bytearray_full_width(in, out) ==
  [buf |-> in, size |-> UINT64_BYTES]

\* uint64_to_bytearray(in, out): out is resized to the bytes needed and
\* out[bytes_needed - 1 - i] = (value >> (i * 8)) & 0xFF
uint64_to_bytearray(in, out) ==
  LET bytes_needed == count_bytes_needed(in, 0)
      resized == VecResize(out, bytes_needed)
  IN [buf |-> [k \in 1..Capacity(resized) |->
                 IF k <= bytes_needed
                   THEN LowByte(ShiftRightBytes(in, bytes_needed - k))
                   ELSE resized.buf[k]],
      size |-> bytes_needed]

\* the loop of bytearray_to_uint64: result = (result << 8) | in[i]
RECURSIVE bytearray_to_uint64_loop(_, _, _)
bytearray_to_uint64_loop(in, i, result) ==
  IF i > Len(in) THEN result
  ELSE bytearray_to_uint64_loop(in, i + 1, OrByte(ShiftLeft8(result), in[i]))

\* bytearray_to_uint64(in) throws std::invalid_argument when in.size() > 8
bytearray_to_uint64_throws(in) == Len(in) > UINT64_BYTES

bytearray_to_uint64(in) == bytearray_to_uint64_loop(in, 1, U64Zero)

\* ByteArray::as_64bit_uint() throws std::invalid_argument when size() > 8
as_64bit_uint_throws(v) ==
  v.size > UINT64_BYTES \/ bytearray_to_uint64_throws(Elems(v))

as_64bit_uint(v) == bytearray_to_uint64(Elems(v))

\* ------------------------------------------------------------- comparison
\* std::ranges::equal over two ranges: false when their sizes differ, else
\* the elements compared in order
RECURSIVE ranges_equal(_, _, _)
ranges_equal(r1, r2, i) ==
  IF Len(r1) # Len(r2) THEN FALSE
  ELSE IF i > Len(r1) THEN TRUE
  ELSE IF r1[i] # r2[i] THEN FALSE
  ELSE ranges_equal(r1, r2, i + 1)

\* (variant: the elements compared as far as the shorter buffer goes)
operator_eq_prefix(v, w) ==
  \A i \in 1..Min(v.size, w.size) : Elems(v)[i] = Elems(w)[i]

\* ByteArray::operator==(other): sizes first, then begin()..end() of both
operator_eq(v, w) ==
  IF v.size # w.size THEN FALSE
  ELSE ranges_equal(Elems(v), Elems(w), 1)

\* ------------------------------------------------- hexadecimal text input
\* Text is a sequence of characters, each a one-character string.  A buffer
\* of char handed to strtol ends at its terminating NUL: the character read
\* past the last one.
NUL == ""

CharAt(s, i) == IF i \in 1..Len(s) THEN s[i] ELSE NUL

\* the value of each character strtol takes as a digit in base 16
HexDigitValue ==
  ("0" :> 0) @@ ("1" :> 1) @@ ("2" :> 2) @@ ("3" :> 3) @@ ("4" :> 4) @@
  ("5" :> 5) @@ ("6" :> 6) @@ ("7" :> 7) @@ ("8" :> 8) @@ ("9" :> 9) @@
  ("a" :> 10) @@ ("b" :> 11) @@ ("c" :> 12) @@ ("d" :> 13) @@ ("e" :> 14) @@
  ("f" :> 15) @@ ("A" :> 10) @@ ("B" :> 11) @@ ("C" :> 12) @@ ("D" :> 13) @@
  ("E" :> 14) @@ ("F" :> 15)

isxdigit(ch) == ch \in DOMAIN HexDigitValue

\* isspace in the "C" locale (the vertical tab has no TLA+ escape and is
\* not drawn)
isspace(ch) == ch \in {" ", "\t", "\n", "\f", "\r"}

\* strtol, step 1: the index of the first character that is not white space
RECURSIVE strtol_skip_space(_, _)
strtol_skip_space(s, i) ==
  IF isspace(CharAt(s, i)) THEN strtol_skip_space(s, i + 1) ELSE i

\* strtol, step 3: the digits from index i on; end is the index of the first
\* character that is not a digit
RECURSIVE strtol_digits(_, _, _)
strtol_digits(s, i, acc) ==
  IF isxdigit(CharAt(s, i))
    THEN strtol_digits(s, i + 1, acc * 16 + HexDigitValue[CharAt(s, i)])
    ELSE [value |-> acc, end |-> i]

\* strtol(s, &end_ptr, 16): optional white space, an optional sign, an
\* optional 0x or 0X in front of a digit, then the digits.  end_ptr is the
\* index of the first character not converted, and 1 (s itself) when no
\* digit was converted.
strtol(s) ==
  LET i == strtol_skip_space(s, 1)
      negative == CharAt(s, i) = "-"
      j == IF CharAt(s, i) \in {"+", "-"} THEN i + 1 ELSE i
      k == IF /\ CharAt(s, j) = "0"
              /\ CharAt(s, j + 1) \in {"x", "X"}
              /\ isxdigit(CharAt(s, j + 2))
             THEN j + 2 ELSE j
      digits == strtol_digits(s, k, 0)
  IN IF digits.end = k
       THEN [value |-> 0, end_ptr |-> 1]
       ELSE [value |-> IF negative THEN 0 - digits.value ELSE digits.value,
             end_ptr |-> digits.end]

\* static_cast<unsigned char>(value)
to_unsigned_char(value) == value % 256

\* the loop of ByteArray(hex_str), i counting characters from 1: two
\* characters a byte, a last single character behind a "0"
RECURSIVE hex_ctor_loop(_, _, _)
hex_ctor_loop(hex_str, i, bytes) ==
  IF i > Len(hex_str) THEN [bytes |-> bytes, threw |-> FALSE]
  ELSE
    LET hex_byte == IF i + 1 <= Len(hex_str)
                      THEN <<hex_str[i], hex_str[i + 1]>>
                      ELSE <<"0", hex_str[i]>>
        conv == strtol(hex_byte)
        output_index == (i + 1) \div 2
    IN IF conv.end_ptr = 1 \/ CharAt(hex_byte, conv.end_ptr) # NUL
         THEN [bytes |-> bytes, threw |-> TRUE]
         ELSE hex_ctor_loop(hex_str, i + 2,
                [bytes EXCEPT ![output_index] = to_unsigned_char(conv.value)])

\* ByteArray(hex_str): bytes_ resized to length / 2 + length % 2, then filled
hex_ctor(hex_str) ==
  hex_ctor_loop(hex_str, 1,
                Zeros((Len(hex_str) \div 2) + (Len(hex_str) % 2)))

\* ------------------------------------------------------------------ state
VARIABLES
  bytes_,    \* the receiver's std::vector<unsigned char> as [buf, size]
  call,      \* the last operation and its arguments
  ret,       \* what it returned or threw
  out,       \* the ByteArray a value-returning operation produced
  warned,    \* whether it wrote the SECURITY WARNING to stderr
  released,  \* whether its secure erase released the storage, and how many
             \* cells of that storage held a non-zero byte when released
  operand    \* the other ByteArray of a binary operation, as [buf, size]

vars == <<bytes_, call, ret, out, warned, released, operand>>

Call(op) ==
  [op |-> op, b |-> <<>>, c |-> 0, n |-> 0, dir |-> DEFAULT_PAD,
   purge |-> FALSE, warn |-> FALSE,
   verify |-> FALSE, throw |-> FALSE, effect |-> "zeroed",
   in_null |-> FALSE, out_null |-> FALSE,
   pc |-> "done", trace |-> <<>>, verified |-> TRUE, text |-> <<>>]

\* the cells of a storage block that hold a non-zero byte
NonZeroCells(block) ==
  {i \in DOMAIN block : block[i] # 0 /\ block[i] # Unwritten}

Release(freed, block) ==
  [freed |-> freed, nonzero |-> Cardinality(NonZeroCells(block))]

NoRelease == Release(FALSE, NoBlock)

Sizes == 0..MaxLen

\* ByteArray(): bytes_.reserve(JLBA_DEFAULT_ALLOC_SIZE)
default_ctor == VecReserved(JLBA_DEFAULT_ALLOC_SIZE)

\* create_with_prealloc(reserve_size): buf.reserve(reserve_size), moved in
create_with_prealloc(reserve_size) == VecReserved(reserve_size)

Init ==
  /\ \/ /\ bytes_ = default_ctor
        /\ call = Call("default_ctor")
     \/ \E r \in 0..MaxReserve :
          /\ bytes_ = create_with_prealloc(r)
          /\ call = [Call("create_with_prealloc") EXCEPT !.n = r]
     \/ \E b \in ObjOperands :
          /\ bytes_ = VecOf(b)
          /\ call = [Call("vector_ctor") EXCEPT !.b = b]
  /\ ret = "void"
  /\ out = <<>>
  /\ warned = FALSE
  /\ released = NoRelease
  /\ operand = EmptyVec

\* x = other (copy assignment from another ByteArray)
Assign(b) ==
  /\ bytes_' = VecCopyAssign(bytes_, b)
  /\ call' = [Call("assign") EXCEPT !.b = b]
  /\ ret' = "void"
  /\ out' = <<>>
  /\ warned' = FALSE
  /\ released' = NoRelease
  /\ UNCHANGED operand

\* x = ByteArray(b) (operator=(ByteArray&&))
MoveAssign(b) ==
  /\ bytes_' = VecMoveAssign(bytes_, VecOf(b))
  /\ call' = [Call("move_assign") EXCEPT !.b = b]
  /\ ret' = "void"
  /\ out' = <<>>
  /\ warned' = FALSE
  /\ released' = NoRelease
  /\ UNCHANGED operand

\* x.concat(other)
Concat(b) ==
  /\ bytes_.size + Len(b) <= MaxLen
  /\ bytes_' = VecInsertEnd(bytes_, b)
  /\ call' = [Call("concat") EXCEPT !.b = b]
  /\ ret' = "void"
  /\ out' = <<>>
  /\ warned' = FALSE
  /\ released' = NoRelease
  /\ UNCHANGED operand

\* x ^= other: temp_bytes = bytes_; xor_op(temp_bytes, other.bytes_, bytes_)
XorAssign(b) ==
  /\ LET temp_bytes == Elems(bytes_) IN
       bytes_' = xor_op(temp_bytes, b, bytes_)
  /\ call' = [Call("xor_assign") EXCEPT !.b = b]
  /\ ret' = "void"
  /\ out' = <<>>
  /\ warned' = FALSE
  /\ released' = NoRelease
  /\ UNCHANGED operand

\* x ^= byte: temp_bytes = bytes_; xor_op(temp_bytes, byte, bytes_)
XorAssignByte(c) ==
  /\ LET temp_bytes == Elems(bytes_) IN
       bytes_' = xor_op_byte(temp_bytes, c, bytes_)
  /\ call' = [Call("xor_assign_byte") EXCEPT !.c = c]
  /\ ret' = "void"
  /\ out' = <<>>
  /\ warned' = FALSE
  /\ released' = NoRelease
  /\ UNCHANGED operand

\* x.resize(new_size, purge_before_resize, output_warning, zero_pad_dir)
Resize(n, purge, warn, dir) ==
  LET r == resize(bytes_, n, purge, dir) IN
  /\ bytes_' = r.vec
  /\ call' = [Call("resize") EXCEPT !.n = n, !.purge = purge,
                                    !.warn = warn, !.dir = dir]
  /\ ret' = IF r.threw THEN "ErasureVerificationError" ELSE "void"
  /\ out' = <<>>
  /\ warned' = resize_warns(bytes_, n, purge, warn)
  /\ released' = Release(r.freed, r.block)
  /\ UNCHANGED operand

\* x.clear()
Clear ==
  /\ bytes_' = VecClear(bytes_)
  /\ call' = Call("clear")
  /\ ret' = "void"
  /\ out' = <<>>
  /\ warned' = FALSE
  /\ released' = NoRelease
  /\ UNCHANGED operand

\* x.secure_wipe()
SecureWipe ==
  LET r == secure_wipe(bytes_) IN
  /\ bytes_' = r.vec
  /\ call' = Call("secure_wipe")
  /\ ret' = IF r.threw THEN "ErasureVerificationError"
            ELSE IF r.ret THEN "true" ELSE "false"
  /\ out' = <<>>
  /\ warned' = FALSE
  /\ released' = Release(r.freed, r.block)
  /\ UNCHANGED operand

\* (variant: r = x ^ other computed in the receiver, as x ^= other is)
XorInPlace(b) ==
  /\ bytes_' = xor_op(Elems(bytes_), b, bytes_)
  /\ out' = Elems(bytes_')
  /\ call' = [Call("xor") EXCEPT !.b = b]
  /\ ret' = "value"
  /\ warned' = FALSE
  /\ released' = NoRelease
  /\ UNCHANGED operand

\* r = x ^ other
Xor(b) ==
  /\ out' = Elems(xor_op_copy(Elems(bytes_), b))
  /\ call' = [Call("xor") EXCEPT !.b = b]
  /\ ret' = "value"
  /\ warned' = FALSE
  /\ released' = NoRelease
  /\ UNCHANGED operand
  /\ UNCHANGED bytes_

\* r = x ^ byte
XorByte(c) ==
  /\ out' = Elems(xor_op_byte_copy(Elems(bytes_), c))
  /\ call' = [Call("xor_byte") EXCEPT !.c = c]
  /\ ret' = "value"
  /\ warned' = FALSE
  /\ released' = NoRelease
  /\ UNCHANGED operand
  /\ UNCHANGED bytes_

\* r = ~x: result.bytes_ = ByteArrayOps::complement(bytes_)
Complement ==
  /\ IF complement_throws(Elems(bytes_))
       THEN /\ out' = <<>>
            /\ ret' = "invalid_argument"
       ELSE /\ out' = Elems(VecMoveAssign(default_ctor,
                                          complement_copy(Elems(bytes_))))
            /\ ret' = "value"
  /\ call' = Call("complement")
  /\ warned' = FALSE
  /\ released' = NoRelease
  /\ UNCHANGED operand
  /\ UNCHANGED bytes_

\* r = ByteArray(x, num_bytes, zero_pad_dir)
Copy(n, dir) ==
  /\ out' = PartialCopy(Elems(bytes_), n, dir)
  /\ call' = [Call("partial_copy") EXCEPT !.n = n, !.dir = dir]
  /\ ret' = "value"
  /\ warned' = FALSE
  /\ released' = NoRelease
  /\ UNCHANGED operand
  /\ UNCHANGED bytes_

\* the life of one ByteArray: every mutating operation, in any order
Next ==
  \/ \E b \in ObjOperands : Assign(b)
  \/ \E b \in ObjOperands : MoveAssign(b)
  \/ \E b \in ObjOperands : Concat(b)
  \/ \E b \in ObjOperands : XorAssign(b)
  \/ \E c \in ObjBytes : XorAssignByte(c)
  \/ \E n \in Sizes, purge \in BOOLEAN, warn \in BOOLEAN, dir \in PadDirs :
       Resize(n, purge, warn, dir)
  \/ Clear
  \/ SecureWipe
  \/ Complement

Spec == Init /\ [][Next]_vars

\* the algebra and the copies: a ByteArray built from any byte sequence, the
\* value-returning operations on it and the in-place XORs
InitOps ==
  /\ \E a \in Operands :
       /\ bytes_ = VecOf(a)
       /\ call = [Call("vector_ctor") EXCEPT !.b = a]
  /\ ret = "void"
  /\ out = <<>>
  /\ warned = FALSE
  /\ released = NoRelease
  /\ operand = EmptyVec

NextOps ==
  \/ \E b \in Operands : Xor(b)
  \/ \E c \in InBytes : XorByte(c)
  \/ Complement
  \/ \E n \in Sizes, dir \in PadDirs : Copy(n, dir)
  \/ \E b \in Operands : XorAssign(b)
  \/ \E c \in InBytes : XorAssignByte(c)

SpecOps == InitOps /\ [][NextOps]_vars

\* x ^= x: temp_bytes = bytes_; xor_op(temp_bytes, bytes_, bytes_)
XorAssignSelf ==
  /\ LET temp_bytes == Elems(bytes_) IN
       bytes_' = xor_op_second_is_result(temp_bytes, bytes_)
  /\ call' = [Call("xor_assign_self") EXCEPT !.b = Elems(bytes_)]
  /\ ret' = "void"
  /\ out' = <<>>
  /\ warned' = FALSE
  /\ released' = NoRelease
  /\ UNCHANGED operand

\* r = (x == other)
Equal ==
  /\ ret' = IF operator_eq(bytes_, operand) THEN "true" ELSE "false"
  /\ call' = [Call("equal") EXCEPT !.b = Elems(operand)]
  /\ out' = <<>>
  /\ warned' = FALSE
  /\ released' = NoRelease
  /\ UNCHANGED <<bytes_, operand>>

\* r = (x == x)
EqualSelf ==
  /\ ret' = IF operator_eq(bytes_, bytes_) THEN "true" ELSE "false"
  /\ call' = [Call("equal_self") EXCEPT !.b = Elems(bytes_)]
  /\ out' = <<>>
  /\ warned' = FALSE
  /\ released' = NoRelease
  /\ UNCHANGED <<bytes_, operand>>

\* two ByteArrays side by side: x built from any byte sequence, other built
\* from any byte sequence, and the binary operations of x with other
InitPair ==
  /\ \E a \in Operands, b \in Operands :
       /\ bytes_ = VecOf(a)
       /\ operand = VecOf(b)
       /\ call = [Call("vector_ctor") EXCEPT !.b = a]
  /\ ret = "void"
  /\ out = <<>>
  /\ warned = FALSE
  /\ released = NoRelease

NextPair ==
  \/ Xor(Elems(operand))
  \/ \E c \in InBytes : XorByte(c)
  \/ Complement
  \/ XorAssign(Elems(operand))
  \/ \E c \in InBytes : XorAssignByte(c)
  \/ Equal
  \/ EqualSelf
  \/ XorAssignSelf

SpecPair == InitPair /\ [][NextPair]_vars

\* the uint64_t values tried: zero, and for every byte count 1..8 the values
\* whose top byte is 1 or 255 and whose lower bytes are all 0, all 90 or
\* all 255 (1, 255, 256, ..., 2^64 - 1 among them)
U64Values ==
  {U64Zero} \cup
  {Zeros(UINT64_BYTES - 1 - n) \o <<h>> \o [i \in 1..n |-> f] :
     h \in {1, 255}, f \in InBytes, n \in 0..(UINT64_BYTES - 1)}

\* the buffers as_64bit_uint is tried on: 0 to 9 bytes, a first byte 0 or
\* 255 and the rest all 0, all 90 or all 255
U64Buffers ==
  {<<>>} \cup
  {<<h>> \o [i \in 1..n |-> f] :
     h \in {0, 255}, f \in InBytes, n \in 0..UINT64_BYTES}

\* x = ByteArray::create_from_uint64(byte_array_long)
CreateFromUint64(byte_array_long) ==
  /\ bytes_' = VecMoveAssign(bytes_,
                  uint64_to_bytearray(byte_array_long, default_ctor))
  /\ call' = [Call("create_from_uint64") EXCEPT !.b = byte_array_long]
  /\ ret' = "void"
  /\ out' = <<>>
  /\ warned' = FALSE
  /\ released' = NoRelease
  /\ UNCHANGED operand

\* r = x.as_64bit_uint(); out is r as its eight digits
AsUint64 ==
  /\ IF as_64bit_uint_throws(bytes_)
       THEN /\ out' = <<>>
            /\ ret' = "invalid_argument"
       ELSE /\ out' = as_64bit_uint(bytes_)
            /\ ret' = "value"
  /\ call' = Call("as_64bit_uint")
  /\ warned' = FALSE
  /\ released' = NoRelease
  /\ UNCHANGED <<bytes_, operand>>

\* the conversions to and from uint64_t, on buffers of up to nine bytes
InitU64 ==
  /\ \E b \in U64Buffers :
       /\ bytes_ = VecOf(b)
       /\ call = [Call("vector_ctor") EXCEPT !.b = b]
  /\ ret = "void"
  /\ out = <<>>
  /\ warned = FALSE
  /\ released = NoRelease
  /\ operand = EmptyVec

NextU64 ==
  \/ \E v \in U64Values : CreateFromUint64(v)
  \/ AsUint64

SpecU64 == InitU64 /\ [][NextU64]_vars

\* a span of n cells the caller has allocated and not yet written
FreshSpan(n) == [k \in 1..n |-> Unwritten]

\* the span sizes a caller passes: too small, exact and too large
SpanSizes == 0..(MaxLen + 1)

\* what a store outside the span ends in: undefined behaviour, which either
\* lands in the neighbouring memory or traps
OutOfBoundsOutcomes == {"out_of_bounds_write", "SIGSEGV"}

\* Unsafe::xor_op(x.data(), x.size(), other.data(), other.size(), result, n)
UnsafeXor(n) ==
  LET r == unsafe_xor_op(Elems(bytes_), Elems(operand), FreshSpan(n)) IN
  /\ out' = r.mem
  /\ call' = [Call("unsafe_xor") EXCEPT !.b = Elems(operand), !.n = n]
  /\ ret' = "void"
  /\ warned' = FALSE
  /\ released' = NoRelease
  /\ UNCHANGED <<bytes_, operand>>

\* Unsafe::xor_op(x.data(), x.size(), byte, result, n)
UnsafeXorByte(c, n) ==
  LET r == unsafe_xor_op_byte(Elems(bytes_), c, FreshSpan(n)) IN
  /\ out' = r.mem
  /\ call' = [Call("unsafe_xor_byte") EXCEPT !.c = c, !.n = n]
  /\ IF r.oob = {} THEN ret' = "void" ELSE ret' \in OutOfBoundsOutcomes
  /\ warned' = FALSE
  /\ released' = NoRelease
  /\ UNCHANGED <<bytes_, operand>>

\* what a failed assert ends in: abort() in a build with assertions, nothing
\* in a build with NDEBUG
AssertOutcomes == {"assertion_failed", "void"}

\* Unsafe::complement(x.data(), result, x.size()), result a span of x.size()
\* cells, either pointer possibly null
UnsafeComplement(in_null, out_null) ==
  LET r == unsafe_complement(Elems(bytes_), FreshSpan(bytes_.size),
                             in_null, out_null) IN
  /\ out' = r.mem
  /\ call' = [Call("unsafe_complement") EXCEPT !.n = bytes_.size,
                 !.in_null = in_null, !.out_null = out_null]
  /\ IF r.asserted THEN ret' = "void" ELSE ret' \in AssertOutcomes
  /\ warned' = FALSE
  /\ released' = NoRelease
  /\ UNCHANGED <<bytes_, operand>>

\* buf = a copy of x's bytes; Unsafe::complement(buf, buf, x.size())
UnsafeComplementInPlace ==
  LET r == unsafe_complement_in_place(Elems(bytes_)) IN
  /\ out' = r.mem
  /\ call' = [Call("unsafe_complement_in_place") EXCEPT !.n = bytes_.size]
  /\ IF r.asserted THEN ret' = "void" ELSE ret' \in AssertOutcomes
  /\ warned' = FALSE
  /\ released' = NoRelease
  /\ UNCHANGED <<bytes_, operand>>

\* the raw-pointer operations on the bytes of two ByteArrays, each built from
\* any byte sequence, with an output span of any size
NextRaw ==
  \/ \E n \in SpanSizes : UnsafeXor(n)
  \/ \E c \in InBytes, n \in SpanSizes : UnsafeXorByte(c, n)
  \/ \E in_null \in BOOLEAN, out_null \in BOOLEAN :
       UnsafeComplement(in_null, out_null)
  \/ UnsafeComplementInPlace

SpecRaw == InitPair /\ [][NextRaw]_vars

\* the objects secure_zero<unsigned char> is instantiated for: one byte
Objects == {<<c>> : c \in InBytes}

\* SecureErase::secure_zero_vector(bytes_, Options(verify, throw))
SecureZeroVector(verify, throw, effect) ==
  LET r == secure_zero_vector_effect(bytes_, Options(verify, throw), effect)
  IN
  /\ bytes_' = r.vec
  /\ call' = [Call("secure_zero_vector") EXCEPT !.verify = verify,
                 !.throw = throw, !.effect = effect]
  /\ ret' = IF r.threw THEN "ErasureVerificationError"
            ELSE IF r.ret THEN "true" ELSE "false"
  /\ out' = <<>>
  /\ warned' = FALSE
  /\ released' = Release(r.freed, r.block)
  /\ UNCHANGED operand

\* SecureErase::secure_zero(obj, Options(verify, throw)); out is obj afterwards
SecureZero(obj, verify, throw, effect) ==
  LET r == secure_zero(obj, Options(verify, throw), effect) IN
  /\ out' = r.obj
  /\ call' = [Call("secure_zero") EXCEPT !.b = obj, !.verify = verify,
                 !.throw = throw, !.effect = effect]
  /\ ret' = IF r.threw THEN "ErasureVerificationError"
            ELSE IF r.ret THEN "true" ELSE "false"
  /\ warned' = FALSE
  /\ released' = NoRelease
  /\ UNCHANGED <<bytes_, operand>>

\* (variant: the warning written after the buffer has been replaced)
resize_next_warn_last(pc, purge_before_resize, empty) ==
  IF pc = "enter" THEN IF purge_before_resize THEN "copy" ELSE "resize"
  ELSE IF pc = "copy" THEN IF empty THEN "assign" ELSE "zero"
  ELSE IF pc = "wiped" THEN "assign"
  ELSE IF pc = "warn" THEN "done"
  ELSE "warn"

\* the statements of ByteArray::resize in the order the code has them:
\* "warn" (the if that writes the SECURITY WARNING), then with purge "copy"
\* (ByteArray temp(*this, new_size)), secure_wipe() (the statements of
\* secure_zero_vector, none of them when the vector is empty; "wiped" is its
\* return) and "assign" (*this = temp), without purge "resize"
\* (bytes_.resize(new_size)). This is the statement that follows pc.
resize_next(pc, purge_before_resize, empty) ==
  IF pc = "enter" THEN "warn"
  ELSE IF pc = "warn" THEN IF purge_before_resize THEN "copy" ELSE "resize"
  ELSE IF pc = "copy" THEN IF empty THEN "assign" ELSE "zero"
  ELSE IF pc = "wiped" THEN "assign"
  ELSE "done"

\* where a statement of secure_zero_vector leads: inside resize its return
\* is the return of secure_wipe(), and its throw leaves resize as well
EraseNext(pc, verified) ==
  LET next == secure_zero_vector_next(pc, Options(call.verify, call.throw),
                                      verified)
      threw == pc = "verify" /\ next = "done"
  IN IF next = "done" /\ call.op = "resize" /\ ~threw
       THEN resize_next("wiped", call.purge, FALSE)
       ELSE next

\* secure_zero_vector(bytes_, Options(verify, throw)), statement by statement.
\* The call: an empty vector returns true at once, otherwise the erase begins.
EraseEnter(verify, throw, effect) ==
  /\ call.pc = "done"
  /\ call' = [Call("secure_zero_vector") EXCEPT !.verify = verify,
                 !.throw = throw, !.effect = effect,
                 !.pc = IF bytes_.size = 0 THEN "done" ELSE "zero"]
  /\ ret' = IF bytes_.size = 0 THEN "true" ELSE "running"
  /\ out' = <<>>
  /\ warned' = FALSE
  /\ released' = NoRelease
  /\ UNCHANGED <<bytes_, operand>>

\* secure_zero_raw_(data_ptr, total_size)
EraseZero ==
  /\ call.pc = "zero"
  /\ bytes_' = [buf |-> secure_zero_raw_effect(bytes_.buf, bytes_.size,
                                               call.effect),
                size |-> bytes_.size]
  /\ call' = [call EXCEPT !.pc = EraseNext("zero", TRUE),
                          !.trace = Append(@, "zero")]
  /\ UNCHANGED <<ret, out, warned, released, operand>>

\* verified = verify_zeroed_(vec.data(), total_size), and the throw
EraseVerify ==
  /\ call.pc = "verify"
  /\ LET verified == verify_zeroed_(bytes_.buf, bytes_.size)
         next == EraseNext("verify", verified)
     IN /\ call' = [call EXCEPT !.pc = next, !.verified = verified,
                                 !.trace = Append(@, "verify")]
        /\ ret' = IF next = "done" THEN "ErasureVerificationError" ELSE ret
  /\ UNCHANGED <<bytes_, out, warned, released, operand>>

\* std::vector<T>().swap(vec); return verified
EraseSwap ==
  /\ call.pc = "swap"
  /\ released' = Release(TRUE, bytes_.buf)
  /\ bytes_' = EmptyVec
  /\ LET next == EraseNext("swap", call.verified)
     IN /\ call' = [call EXCEPT !.pc = next, !.trace = Append(@, "swap")]
        /\ ret' = IF next = "done"
                    THEN IF call.verified THEN "true" ELSE "false"
                    ELSE ret
  /\ UNCHANGED <<out, warned, operand>>

\* x.resize(new_size, purge_before_resize, output_warning, zero_pad_dir),
\* statement by statement; call.b is x as it was when the call began, out is
\* the temporary ByteArray of the purging branch
ResizeEnter(n, purge, warn, dir, effect) ==
  /\ call.pc = "done"
  /\ call' = [Call("resize") EXCEPT !.b = Elems(bytes_), !.n = n,
                 !.purge = purge, !.warn = warn, !.dir = dir,
                 !.verify = TRUE, !.throw = TRUE, !.effect = effect,
                 !.pc = resize_next("enter", purge, bytes_.size = 0)]
  /\ ret' = "running"
  /\ out' = <<>>
  /\ warned' = FALSE
  /\ released' = NoRelease
  /\ UNCHANGED <<bytes_, operand>>

\* if (purge_before_resize && output_warning && new_size < size()) std::cerr
ResizeWarn ==
  /\ call.op = "resize"
  /\ call.pc = "warn"
  /\ warned' = resize_warns(bytes_, call.n, call.purge, call.warn)
  /\ call' = [call EXCEPT
                 !.pc = resize_next("warn", call.purge, bytes_.size = 0),
                 !.trace = IF warned' THEN Append(@, "warn") ELSE @]
  /\ ret' = IF call'.pc = "done" THEN "void" ELSE ret
  /\ UNCHANGED <<bytes_, out, released, operand>>

\* ByteArray temp(*this, new_size, zero_pad_dir); then secure_wipe() begins
ResizeCopy ==
  /\ call.op = "resize"
  /\ call.pc = "copy"
  /\ out' = PartialCopy(Elems(bytes_), call.n, call.dir)
  /\ call' = [call EXCEPT
                 !.pc = resize_next("copy", call.purge, bytes_.size = 0),
                 !.trace = Append(@, "copy")]
  /\ UNCHANGED <<bytes_, ret, warned, released, operand>>

\* *this = temp
ResizeAssign ==
  /\ call.op = "resize"
  /\ call.pc = "assign"
  /\ bytes_' = VecCopyAssign(bytes_, out)
  /\ call' = [call EXCEPT
                 !.pc = resize_next("assign", call.purge, bytes_.size = 0),
                 !.trace = Append(@, "assign")]
  /\ ret' = IF call'.pc = "done" THEN "void" ELSE ret
  /\ UNCHANGED <<out, warned, released, operand>>

\* bytes_.resize(new_size)
ResizeInPlace ==
  /\ call.op = "resize"
  /\ call.pc = "resize"
  /\ bytes_' = IF call.dir = MSB_PAD THEN VecResizeMSB(bytes_, call.n)
               ELSE VecResize(bytes_, call.n)
  /\ call' = [call EXCEPT
                 !.pc = resize_next("resize", call.purge, bytes_.size = 0),
                 !.trace = Append(@, "resize")]
  /\ ret' = IF call'.pc = "done" THEN "void" ELSE ret
  /\ UNCHANGED <<out, warned, released, operand>>

\* the erase entry points called with every Options and both effects of the
\* erase primitive, on a vector built from any byte sequence
InitErase ==
  /\ \E a \in Operands :
       /\ bytes_ = VecOf(a)
       /\ call = [Call("vector_ctor") EXCEPT !.b = a]
  /\ ret = "void"
  /\ out = <<>>
  /\ warned = FALSE
  /\ released = NoRelease
  /\ operand = EmptyVec

\* x.secure_wipe() when the stores of the erase have the given effect
Wipe(effect) ==
  LET r == secure_wipe_effect(bytes_, effect) IN
  /\ bytes_' = r.vec
  /\ call' = [Call("secure_wipe") EXCEPT !.b = Elems(bytes_),
                 !.verify = TRUE, !.throw = TRUE, !.effect = effect]
  /\ ret' = IF r.threw THEN "ErasureVerificationError"
            ELSE IF r.ret THEN "true" ELSE "false"
  /\ out' = <<>>
  /\ warned' = FALSE
  /\ released' = Release(r.freed, r.block)
  /\ UNCHANGED operand

NextErase ==
  \/ \E verify \in BOOLEAN, throw \in BOOLEAN, effect \in EraseEffects :
       SecureZeroVector(verify, throw, effect)
  \/ \E effect \in EraseEffects : Wipe(effect)
  \/ \E obj \in Objects, verify \in BOOLEAN, throw \in BOOLEAN,
        effect \in EraseEffects :
       SecureZero(obj, verify, throw, effect)

SpecErase == InitErase /\ [][NextErase]_vars

\* secure_zero_vector and resize one statement at a time, on a vector built
\* from any byte sequence
NextSteps ==
  \/ \E verify \in BOOLEAN, throw \in BOOLEAN, effect \in EraseEffects :
       EraseEnter(verify, throw, effect)
  \/ EraseZero
  \/ EraseVerify
  \/ EraseSwap
  \/ \E n \in Sizes, purge \in BOOLEAN, warn \in BOOLEAN, dir \in PadDirs,
        effect \in EraseEffects :
       ResizeEnter(n, purge, warn, dir, effect)
  \/ ResizeWarn
  \/ ResizeCopy
  \/ ResizeAssign
  \/ ResizeInPlace

SpecSteps == InitErase /\ [][NextSteps]_vars

\* the characters texts are drawn from: hex digits of each kind, the two
\* signs, a white space, and two letters that are no digit
TextChars == {"0", "5", "a", "F", "+", "-", " ", "g", "x"}

Texts == UNION {[1..n -> TextChars] : n \in 0..MaxText}

\* x = ByteArray(text), the one construction of x; when the constructor
\* throws there is no object
FromHex(text) ==
  LET r == hex_ctor(text) IN
  /\ call.op = "none"
  /\ bytes_' = IF r.threw THEN EmptyVec ELSE VecOf(r.bytes)
  /\ call' = [Call("hex_ctor") EXCEPT !.text = text]
  /\ ret' = IF r.threw THEN "runtime_error" ELSE "void"
  /\ out' = <<>>
  /\ warned' = FALSE
  /\ released' = NoRelease
  /\ UNCHANGED operand

InitHex ==
  /\ bytes_ = EmptyVec
  /\ call = Call("none")
  /\ ret = "void"
  /\ out = <<>>
  /\ warned = FALSE
  /\ released = NoRelease
  /\ operand = EmptyVec

NextHex == \E text \in Texts : FromHex(text)

SpecHex == InitHex /\ [][NextHex]_vars

\* ----------------------------------------------------------------- claims
\* a zero-extended on the left (index-0 side) to n bytes
ZeroExtendLeft(a, n) == Zeros(n - Len(a)) \o a

\* a zero-extended on the right (last-index side) to n bytes
ZeroExtendRight(a, n) == a \o Zeros(n - Len(a))

FirstBytes(a, n) == SubSeq(a, 1, n)
LastBytes(a, n) == SubSeq(a, Len(a) - n + 1, Len(a))

\* C1: a ^ b has length max(len(a), len(b)) and its byte i is A[i] XOR B[i],
\* where A and B are a and b zero-extended on the left to that length.
C1_XorRightAligned ==
  call.op = "xor" =>
    LET a == Elems(bytes_)
        b == call.b
        n == Max(Len(a), Len(b))
        A == ZeroExtendLeft(a, n)
        B == ZeroExtendLeft(b, n)
    IN /\ ret = "value"
       /\ Len(out) = n
       /\ \A i \in 1..n : out[i] = Xor8(A[i], B[i])

\* a two-byte buffer XORed with a one-byte operand: the first byte of the
\* result is the buffer's own, the operand reached only the last byte
C1_Witness ==
  /\ call.op = "xor"
  /\ bytes_.size = 2
  /\ Len(call.b) = 1
  /\ call.b[1] = 255
  /\ out = <<bytes_.buf[1], 255 - bytes_.buf[2]>>
  /\ bytes_.buf[1] # 0

\* what C2 says of a buffer a, a byte c and the result r
LastByteXored(a, c, r) ==
  /\ Len(r) = Len(a)
  /\ r[Len(a)] = Xor8(a[Len(a)], c)
  /\ \A i \in 1..(Len(a) - 1) : r[i] = a[i]

\* C2: for len(a) >= 1, a ^ c and a ^= c both give a buffer of length len(a)
\* whose last byte is a's last byte XOR c and whose other bytes are a's.
C2_XorByteLastOnly ==
  [][/\ (call'.op = "xor_byte" /\ bytes_.size >= 1) =>
          LastByteXored(Elems(bytes_), call'.c, out')
     /\ (call'.op = "xor_assign_byte" /\ bytes_.size >= 1) =>
          LastByteXored(Elems(bytes_), call'.c, Elems(bytes_'))]_vars

\* x ^= 0xFF on a two-byte buffer left a first byte that is not the
\* complement of the last one's origin: only the last byte was touched
C2_Witness ==
  /\ call.op = "xor_assign_byte"
  /\ call.c = 255
  /\ bytes_.size = 2
  /\ bytes_.buf[1] = 90
  /\ bytes_.buf[2] = 165

\* C3: after a successful secure erase no byte the buffer ever wrote is left
\* non-zero in the storage that was released, and no written storage is kept
\* (storage is released, not merely marked empty).
C3_ErasedStorageZeroedAndReleased ==
  (call.op = "secure_wipe" /\ ret = "true") =>
    /\ released.nonzero = 0
    /\ \A i \in DOMAIN bytes_.buf : bytes_.buf[i] = Unwritten

\* C4: secure_wipe() returns true and leaves size() = 0, and an assignment
\* right after it gives the buffer exactly the assigned content and length.
C4_WipeLeavesReusableEmpty ==
  [][/\ call'.op = "secure_wipe" => (ret' = "true" /\ bytes_'.size = 0)
     /\ (call.op = "secure_wipe" /\ call'.op \in {"assign", "move_assign"})
          => (Elems(bytes_') = call'.b /\ bytes_'.size = Len(call'.b))]_vars

\* a wipe of a non-empty buffer: it returned true, the storage is gone
C4_Witness ==
  /\ call.op = "secure_wipe"
  /\ ret = "true"
  /\ released.freed
  /\ bytes_ = EmptyVec

\* what C5 says resize(n, dir) makes of the content a
ResizedContent(a, n, dir) ==
  IF dir = MSB_PAD
    THEN IF n >= Len(a) THEN ZeroExtendLeft(a, n) ELSE LastBytes(a, n)
    ELSE IF n >= Len(a) THEN ZeroExtendRight(a, n) ELSE FirstBytes(a, n)

CopiedContent(other, n, dir) ==
  IF dir = MSB_PAD
    THEN IF n >= Len(other) THEN Zeros(n - Len(other)) \o other
         ELSE LastBytes(other, n)
    ELSE FirstBytes(other, Min(n, Len(other)))
           \o Zeros(n - Min(n, Len(other)))

C9_SizeIsRequested ==
  [][/\ call.op \in {"default_ctor", "create_with_prealloc"} =>
          bytes_.size = 0
     /\ call.op = "vector_ctor" => bytes_.size = Len(call.b)
     /\ call'.op = "resize" => bytes_'.size = call'.n
     /\ call'.op = "concat" => bytes_'.size = bytes_.size + Len(call'.b)
     /\ call'.op = "xor_assign" =>
          bytes_'.size = Max(bytes_.size, Len(call'.b))
     /\ call'.op = "xor_assign_byte" => bytes_'.size = Max(bytes_.size, 1)
     /\ call'.op \in {"clear", "secure_wipe"} => bytes_'.size = 0
     /\ call'.op \in {"assign", "move_assign"} =>
          bytes_'.size = Len(call'.b)]_vars

\* bytes appended to a buffer that still has the default reservation
C9_Witness ==
  /\ call.op = "concat"
  /\ Capacity(bytes_) = JLBA_DEFAULT_ALLOC_SIZE
  /\ bytes_.size = 2
  /\ Len(call.b) = 1

\* C10: for non-empty a, ~a has the length of a, every bit of (~a)[i] is the
\* opposite of the same bit of a[i], and ~(~a) = a.
C10_ComplementInvolution ==
  (call.op = "complement" /\ bytes_.size >= 1) =>
    LET a == Elems(bytes_) IN
    /\ ret = "value"
    /\ Len(out) = Len(a)
    /\ \A i \in 1..Len(a) :
         And8(out[i], a[i]) = 0 /\ Or8(out[i], a[i]) = 255
    /\ ~complement_throws(out)
    /\ Elems(complement_copy(out)) = a

\* the complement of a two-byte buffer with different bytes
C10_Witness ==
  /\ call.op = "complement"
  /\ ret = "value"
  /\ Elems(bytes_) = <<90, 255>>
  /\ out = <<165, 0>>

\* C11: complementing a buffer that holds no byte, through ~x or through
\* ByteArrayOps::complement, fails with std::invalid_argument and produces no
\* result; a buffer emptied by clear() or secure_wipe() is such a buffer.
C11_ComplementOfEmptyThrows ==
  /\ complement_throws(<<>>)
  /\ (call.op = "complement" /\ bytes_.size = 0)
       => (ret = "invalid_argument" /\ out = <<>>)
  /\ (call.op = "complement" /\ ret = "invalid_argument") => bytes_.size = 0

\* ~x has thrown on a buffer that held bytes before it was emptied and still
\* owns the storage they were in (clear(), resize(0) or an assignment)
C11_Witness ==
  /\ call.op = "complement"
  /\ ret = "invalid_argument"
  /\ out = <<>>
  /\ Capacity(bytes_) > 0
  /\ \E i \in 1..Capacity(bytes_) : bytes_.buf[i] \in ObjBytes

\* ~x has thrown on a buffer whose storage a secure erase had released
C11_WitnessWiped ==
  /\ call.op = "complement"
  /\ ret = "invalid_argument"
  /\ bytes_ = EmptyVec

\* C12: x ^ other, x ^ byte and ~x leave x and other as they were; x ^= other
\* leaves other as it was; the receiver of ^= is the only object a step of
\* these operations ever modifies.
C12_OperandsUnchanged ==
  [][/\ call'.op \in {"xor", "xor_byte", "complement"}
          => (bytes_' = bytes_ /\ operand' = operand)
     /\ call'.op \in {"xor_assign", "xor_assign_byte", "xor_assign_self"}
          => operand' = operand
     /\ bytes_' # bytes_
          => call'.op \in {"xor_assign", "xor_assign_byte", "xor_assign_self"}
    ]_vars

\* x ^ other has produced a result that is neither x nor other, both of them
\* holding bytes
C12_Witness ==
  /\ call.op = "xor"
  /\ ret = "value"
  /\ call.b = Elems(operand)
  /\ bytes_.size > 0
  /\ operand.size > 0
  /\ out # Elems(bytes_)
  /\ out # Elems(operand)

\* C13: x ^ other and other ^ x have the same length, the longer of the two
\* lengths, and the same byte at every position.
C13_XorCommutes ==
  call.op = "xor" =>
    LET ab == out
        ba == Elems(xor_op_copy(Elems(operand), Elems(bytes_)))
    IN /\ Len(ab) = Max(bytes_.size, operand.size)
       /\ Len(ba) = Len(ab)
       /\ \A i \in 1..Len(ab) : ab[i] = ba[i]

\* x ^ other has been taken of two buffers of different lengths whose last
\* bytes differ and are not zero
C13_Witness ==
  /\ call.op = "xor"
  /\ bytes_.size > operand.size
  /\ operand.size > 0
  /\ Elems(operand)[operand.size] # 0
  /\ Elems(bytes_)[bytes_.size] # 0
  /\ Elems(bytes_)[bytes_.size] # Elems(operand)[operand.size]
  /\ out = Elems(xor_op_copy(Elems(operand), Elems(bytes_)))

\* C14: x ^ (x ^ other) has the longer of the two lengths and is other
\* zero-extended on the left to that length.
C14_XorTwiceRestores ==
  call.op = "xor" =>
    LET a == Elems(bytes_)
        b == Elems(operand)
        r == Elems(xor_op_copy(a, out))
    IN /\ Len(r) = Max(Len(a), Len(b))
       /\ r = ZeroExtendLeft(b, Max(Len(a), Len(b)))

\* x ^ other has been taken with x the longer and other not all zero, so
\* that x ^ (x ^ other) is other behind at least one zero byte
C14_Witness ==
  /\ call.op = "xor"
  /\ bytes_.size > operand.size
  /\ \E i \in 1..operand.size : Elems(operand)[i] # 0
  /\ \E i \in 1..bytes_.size : Elems(bytes_)[i] # 0
  /\ Elems(xor_op_copy(Elems(bytes_), out)) # Elems(operand)
  /\ Elems(xor_op_copy(Elems(bytes_), out))[1] = 0

\* the verification scan of an erase call finds a byte that is not zero:
\* the primitive left the bytes as they were and one of them was not zero
ScanFindsNonZero(bytes, effect) ==
  effect = "elided" /\ \E i \in 1..Len(bytes) : bytes[i] # 0

\* what C15 says an erase call answers, given the bytes it was called on
ErasureAnswer(bytes, verify, throw, effect) ==
  IF ~verify THEN "true"
  ELSE IF ScanFindsNonZero(bytes, effect)
         THEN IF throw THEN "ErasureVerificationError" ELSE "false"
         ELSE "true"

\* C15: secure_zero and secure_zero_vector return true and do not throw when
\* verification is not requested; with verification requested they throw
\* ErasureVerificationError when the scan finds a non-zero byte and the
\* throw flag is set, return false when it finds one and the flag is clear,
\* and return true when the scan finds only zeros.
C15_ErasureAnswers ==
  [][/\ call'.op = "secure_zero_vector"
          => ret' = ErasureAnswer(Elems(bytes_), call'.verify, call'.throw,
                                  call'.effect)
     /\ call'.op = "secure_zero"
          => ret' = ErasureAnswer(call'.b, call'.verify, call'.throw,
                                  call'.effect)
    ]_vars

\* secure_zero_vector has returned false: verification was requested, the
\* throw flag was clear and the scan found a byte the primitive had left
C15_Witness ==
  /\ call.op = "secure_zero_vector"
  /\ call.verify
  /\ ~call.throw
  /\ call.effect = "elided"
  /\ ret = "false"

\* secure_zero has thrown on an object whose byte the primitive had left
C15_WitnessThrown ==
  /\ call.op = "secure_zero"
  /\ call.verify
  /\ call.throw
  /\ ret = "ErasureVerificationError"
  /\ out = call.b

\* C16: for a non-empty x and a byte c, Unsafe::xor_op(x, len(x), c, result,
\* len(x)) leaves in result the bytes x ^ c returns: x with only its last
\* byte XORed with c.
C16_RawXorByteAgrees ==
  (call.op = "unsafe_xor_byte" /\ bytes_.size >= 1 /\ call.n = bytes_.size)
    => /\ out = Elems(xor_op_byte_copy(Elems(bytes_), call.c))
       /\ LastByteXored(Elems(bytes_), call.c, out)
       /\ ret = "void"

\* the raw single-byte XOR has run on two bytes with a byte that is not
\* zero: the first byte came through as it was, the last one did not
C16_Witness ==
  /\ call.op = "unsafe_xor_byte"
  /\ bytes_.size = 2
  /\ call.n = 2
  /\ call.c # 0
  /\ Elems(bytes_)[1] # 0
  /\ out[1] = Elems(bytes_)[1]
  /\ out[2] # Elems(bytes_)[2]

\* no cell of the span of the last raw call was written
SpanUntouched == out = FreshSpan(call.n) /\ ret = "void"

\* C17: the raw two-operand XOR writes no byte of result when result_size <
\* max(first_size, second_size); the raw single-byte XOR writes nothing when
\* the span is smaller than what x ^ byte needs, max(input_size, 1).
C17_SmallSpanUntouched ==
  /\ (call.op = "unsafe_xor" /\ call.n < Max(bytes_.size, operand.size))
       => SpanUntouched
  /\ (call.op = "unsafe_xor_byte" /\ call.n < Max(bytes_.size, 1))
       => SpanUntouched

\* what the two guards of the code do keep: no write when result_size <
\* max(first_size, second_size), and none when result_size < input_size
C17_GuardedSpanUntouched ==
  /\ (call.op = "unsafe_xor" /\ call.n < Max(bytes_.size, operand.size))
       => SpanUntouched
  /\ (call.op = "unsafe_xor_byte" /\ call.n < bytes_.size)
       => SpanUntouched

\* the raw single-byte XOR of an empty input into an empty span has stored
\* in front of the span
C17_EmptySpanWritten ==
  /\ call.op = "unsafe_xor_byte"
  /\ bytes_.size = 0
  /\ call.n = 0
  /\ ret \in OutOfBoundsOutcomes

\* C18: x == other is true exactly when the two have the same length and the
\* same byte at every index; buffers of different lengths are never equal,
\* two empty buffers are equal, and x == x is true.
C18_EqualityIsLengthThenContent ==
  /\ call.op = "equal" =>
       /\ ret = "true" <=>
            /\ bytes_.size = operand.size
            /\ \A i \in 1..bytes_.size : bytes_.buf[i] = operand.buf[i]
       /\ ret \in {"true", "false"}
       /\ bytes_.size # operand.size => ret = "false"
       /\ (bytes_.size = 0 /\ operand.size = 0) => ret = "true"
  /\ call.op = "equal_self" => ret = "true"

\* x == other has answered true for two buffers of two bytes: x was made
\* equal to other by the operations before
C18_Witness ==
  /\ call.op = "equal"
  /\ ret = "true"
  /\ bytes_.size = 2
  /\ bytes_.buf[1] # 0
  /\ bytes_.buf[2] # bytes_.buf[1]

\* x == other has answered false for a buffer and a longer one that starts
\* with the same bytes
C18_WitnessPrefix ==
  /\ call.op = "equal"
  /\ ret = "false"
  /\ bytes_.size > 0
  /\ bytes_.size < operand.size
  /\ \A i \in 1..bytes_.size : bytes_.buf[i] = operand.buf[i]

C20_WitnessTooLong ==
  /\ call.op = "as_64bit_uint"
  /\ ret = "invalid_argument"
  /\ bytes_.size = UINT64_BYTES + 1

\* as_64bit_uint() has succeeded on eight bytes, the first of them 255
C20_WitnessEight ==
  /\ call.op = "as_64bit_uint"
  /\ ret = "value"
  /\ bytes_.size = UINT64_BYTES
  /\ out = Elems(bytes_)
  /\ out[1] = 255

\* C21: x ^= x leaves x with its length and every byte zero, which is what
\* x = x ^ x gives; and x ^= other gives the buffer x = x ^ other gives.
C21_XorAssignIsXor ==
  [][/\ call'.op = "xor_assign_self" =>
          /\ bytes_'.size = bytes_.size
          /\ Elems(bytes_') = Zeros(bytes_.size)
          /\ Elems(bytes_') = Elems(xor_op_copy(Elems(bytes_), Elems(bytes_)))
     /\ call'.op = "xor_assign" =>
          Elems(bytes_') = Elems(xor_op_copy(Elems(bytes_), Elems(operand)))
    ]_vars

\* x ^= x has turned two non-zero bytes into two zero bytes
C21_Witness ==
  /\ call.op = "xor_assign_self"
  /\ Len(call.b) = 2
  /\ call.b[1] # 0
  /\ call.b[2] # 0
  /\ Elems(bytes_) = <<0, 0>>

\* C22: the raw single-byte XOR stores only to indices in [0, result_size)
\* of result, whatever input_size and result_size are.
C22_RawXorByteStaysInSpan ==
  call.op = "unsafe_xor_byte" =>
    /\ ret \notin OutOfBoundsOutcomes
    /\ Len(out) = call.n
    /\ unsafe_xor_op_byte(Elems(bytes_), call.c, FreshSpan(call.n)).oob = {}

\* the store of the raw single-byte XOR on an empty input and an empty span:
\* index result_size - 1, the byte in front of result
C22_StoreInFrontOfSpan ==
  /\ call.op = "unsafe_xor_byte"
  /\ call.n = 0
  /\ bytes_.size = 0
  /\ unsafe_xor_op_byte(Elems(bytes_), call.c, FreshSpan(call.n)).oob
       = {0 - 1}

\* C23: the assertion of Unsafe::complement, (out[i] & in[i]) == 0 for every
\* i < length, holds on every call with non-null pointers, in-place calls
\* (in and out the same buffer) included.
C23_ComplementAssertionHolds ==
  /\ call.op = "unsafe_complement" => ret = "void"
  /\ call.op = "unsafe_complement_in_place" =>
       /\ ret = "void"
       /\ unsafe_complement_in_place(Elems(bytes_)).asserted

\* what does hold: the assertion of a call on two separate buffers
C23_SeparateBuffersAsserted ==
  call.op = "unsafe_complement" =>
    /\ ret = "void"
    /\ unsafe_complement(Elems(bytes_), FreshSpan(bytes_.size),
                         call.in_null, call.out_null).asserted

\* an in-place call has complemented a byte that is not 0xFF and its
\* assertion has failed
C23_InPlaceAssertionFailed ==
  /\ call.op = "unsafe_complement_in_place"
  /\ ret = "assertion_failed"
  /\ bytes_.size = 1
  /\ out = <<Not8(Elems(bytes_)[1])>>

\* C24: secure_zero_vector on a non-empty vector zeroes the storage in place,
\* then scans that storage only if verify_after_erase is set, then releases
\* it by the swap; the scan never runs after the release and the release
\* never happens before the zeroing.
C24_ZeroThenVerifyThenRelease ==
  call.op = "secure_zero_vector" =>
    /\ call.trace \in {<<>>, <<"zero">>, <<"zero", "verify">>,
                       <<"zero", "swap">>, <<"zero", "verify", "swap">>}
    /\ (\E i \in 1..Len(call.trace) : call.trace[i] = "verify")
         <=> (call.verify /\ Len(call.trace) >= 2)
    /\ released.freed
         <=> (call.trace # <<>> /\ call.trace[Len(call.trace)] = "swap")
    /\ (call.trace # <<>> /\ ~released.freed) => Capacity(bytes_) > 0
    /\ (call.pc = "done" /\ call.trace # <<>>) =>
         \/ call.trace[Len(call.trace)] = "swap"
         \/ ret = "ErasureVerificationError"

\* a verified erase has run to its return: zeroed, scanned, released, and
\* the released storage held no non-zero byte
C24_Witness ==
  /\ call.op = "secure_zero_vector"
  /\ call.pc = "done"
  /\ call.trace = <<"zero", "verify", "swap">>
  /\ ret = "true"
  /\ released.freed
  /\ released.nonzero = 0
  /\ bytes_ = EmptyVec

\* the statements of the last call, the warning left out
TraceSteps == SelectSeq(call.trace, LAMBDA step : step # "warn")

\* C25: a purging resize builds the new_size replacement from the original
\* content, then securely erases the original storage (zeroed, verified,
\* released), and only then adopts the replacement; what the receiver holds
\* in the end is what the same resize without purge gives.
C25_PurgeErasesThenAdopts ==
  (call.op = "resize" /\ call.purge) =>
    /\ call.pc = "assign" =>
         /\ TraceSteps \in {<<"copy">>, <<"copy", "zero", "verify", "swap">>}
         /\ out = Elems(resize(VecOf(call.b), call.n, FALSE, call.dir).vec)
         /\ bytes_ = EmptyVec
         /\ released.nonzero = 0
    /\ (call.pc = "done" /\ ret = "void") =>
         /\ TraceSteps[Len(TraceSteps)] = "assign"
         /\ Elems(bytes_)
              = Elems(resize(VecOf(call.b), call.n, FALSE, call.dir).vec)

\* what does hold of a purging resize: the order of its statements, the
\* replacement built from the original content, the size() bytes of the
\* original zeroed and scanned before the swap, and the final content
C25_PurgeOrderAndContent ==
  (call.op = "resize" /\ call.purge) =>
    /\ call.pc = "assign" =>
         /\ TraceSteps \in {<<"copy">>, <<"copy", "zero", "verify", "swap">>}
         /\ out = Elems(resize(VecOf(call.b), call.n, FALSE, call.dir).vec)
         /\ released.freed <=> call.b # <<>>
         /\ released.freed => bytes_ = EmptyVec
    /\ (call.pc = "done" /\ ret = "void") =>
         /\ TraceSteps[Len(TraceSteps)] = "assign"
         /\ Elems(bytes_)
              = Elems(resize(VecOf(call.b), call.n, FALSE, call.dir).vec)

\* a purging resize is about to adopt its replacement and the storage it
\* has released still held a non-zero byte past the size
C25_RemnantReleased ==
  /\ call.op = "resize"
  /\ call.purge
  /\ call.pc = "assign"
  /\ released.freed
  /\ released.nonzero > 0
  /\ call.effect = "zeroed"

\* a purging resize of an emptied buffer is about to adopt its replacement
\* and the storage is still the receiver's, neither zeroed nor released
C25_StorageKept ==
  /\ call.op = "resize"
  /\ call.purge
  /\ call.pc = "assign"
  /\ ~released.freed
  /\ \E i \in 1..Capacity(bytes_) : bytes_.buf[i] \in ObjBytes

\* C26: when resize warns, the warning is written before any byte is copied,
\* erased or resized, and it does not abort the call: the resize goes on and
\* ends with size() = new_size and the bytes to keep in place.
C26_WarningFirstAndAdvisory ==
  call.op = "resize" =>
    /\ call.pc # "warn" =>
         (warned <=> (call.purge /\ call.warn /\ call.n < Len(call.b)))
    /\ warned =>
         /\ call.trace # <<>>
         /\ call.trace[1] = "warn"
         /\ \A i \in 2..Len(call.trace) : call.trace[i] # "warn"
    /\ (warned /\ call.trace = <<"warn">>) =>
         /\ Elems(bytes_) = call.b
         /\ out = <<>>
         /\ ~released.freed
         /\ call.pc = "copy"
         /\ ret = "running"
    /\ (warned /\ call.pc = "done" /\ call.effect = "zeroed") =>
         /\ ret = "void"
         /\ bytes_.size = call.n
         /\ Elems(bytes_) = ResizedContent(call.b, call.n, call.dir)

\* a resize that warned has run to its end: two bytes shrunk to the first
C26_Witness ==
  /\ call.op = "resize"
  /\ warned
  /\ call.pc = "done"
  /\ ret = "void"
  /\ call.dir = LSB_PAD
  /\ call.b = <<90, 255>>
  /\ call.n = 1
  /\ call.trace = <<"warn", "copy", "zero", "verify", "swap", "assign">>
  /\ Elems(bytes_) = <<90>>

\* C27: verify_zeroed_(ptr, len) is true exactly when all len bytes are zero
\* (true for len = 0) and its loop reads every one of the len bytes, in
\* order, whether or not and wherever a non-zero byte occurs.
C27_ScanReadsEveryByte ==
  /\ \A len \in 0..bytes_.size :
       LET scan == verify_loop(bytes_.buf, 1, len, 0) IN
       /\ scan.reads = [i \in 1..len |-> i]
       /\ verify_zeroed_(bytes_.buf, len)
            <=> \A i \in 1..len : bytes_.buf[i] = 0
  /\ (call.trace # <<>> /\ call.trace[Len(call.trace)] = "verify") =>
       call.verified = verify_zeroed_(bytes_.buf, bytes_.size)

\* the scan of an erase has just failed on two bytes of which the first is
\* not zero and the second is zero
C27_Witness ==
  /\ call.trace # <<>>
  /\ call.trace[Len(call.trace)] = "verify"
  /\ ~call.verified
  /\ bytes_.size = 2
  /\ bytes_.buf[1] # 0
  /\ bytes_.buf[2] = 0
  /\ verify_loop(bytes_.buf, 1, 2, 0).reads = <<1, 2>>

\* C28: secure_wipe() has two outcomes and never returns false: it returns
\* true and the buffer is empty, or it throws ErasureVerificationError and the
\* buffer keeps its length and its storage, nothing being released.
C28_WipeTrueOrThrows ==
  [][call'.op = "secure_wipe" =>
       \/ /\ ret' = "true"
          /\ bytes_'.size = 0
       \/ /\ ret' = "ErasureVerificationError"
          /\ bytes_'.size = bytes_.size
          /\ bytes_.size > 0
          /\ Capacity(bytes_') = Capacity(bytes_)
          /\ ~released'.freed]_vars

\* a wipe of two bytes whose erase stored nothing has thrown
C28_Witness ==
  /\ call.op = "secure_wipe"
  /\ call.effect = "elided"
  /\ ret = "ErasureVerificationError"
  /\ call.b = <<90, 255>>
  /\ Elems(bytes_) = <<90, 255>>
  /\ ~released.freed

\* a wipe of two bytes has returned true and left the buffer empty
C28_WipedEmpty ==
  /\ call.op = "secure_wipe"
  /\ ret = "true"
  /\ Len(call.b) = 2
  /\ bytes_.size = 0
  /\ released.freed

\* C29: for an empty buffer a and any byte c, a ^ c and a ^= c give the
\* one-byte buffer {c}: the result has max(len(a), 1) bytes and no error is
\* raised.
C29_EmptyXorByteIsTheByte ==
  [][(bytes_.size = 0 /\ call'.op \in {"xor_byte", "xor_assign_byte"}) =>
       /\ call'.op = "xor_byte" =>
            /\ out' = <<call'.c>>
            /\ ret' = "value"
            /\ bytes_'.size = 0
       /\ call'.op = "xor_assign_byte" =>
            /\ Elems(bytes_') = <<call'.c>>
            /\ ret' = "void"]_vars

\* a ^ 0xFF of an empty buffer a has given the one byte 0xFF and left a empty
C29_Witness ==
  /\ call.op = "xor_byte"
  /\ call.c = 255
  /\ bytes_.size = 0
  /\ out = <<255>>

\* the byte at place k of the decoding of a text of hex digits
HexByteOf(text, k) ==
  IF 2 * k <= Len(text)
    THEN 16 * HexDigitValue[text[2 * k - 1]] + HexDigitValue[text[2 * k]]
    ELSE HexDigitValue[text[Len(text)]]

AllHexDigits(text) == \A i \in 1..Len(text) : isxdigit(text[i])

\* C30: construction from hexadecimal text fails with a decode error whenever
\* the text holds a character that is not a hex digit, signs and white space
\* in any position included; a text of n hex digits gives ceil(n/2) bytes, an
\* odd last digit being the low nibble of the last byte.
C30_NonHexTextRejected ==
  call.op = "hex_ctor" =>
    /\ ~AllHexDigits(call.text) => ret = "runtime_error"
    /\ AllHexDigits(call.text) =>
         /\ ret = "void"
         /\ bytes_.size = (Len(call.text) + 1) \div 2
         /\ \A k \in 1..bytes_.size :
              bytes_.buf[k] = HexByteOf(call.text, k)

\* the part of C30 the constructor keeps: texts of hex digits only are
\* decoded as stated, and a character that is no digit is rejected unless it
\* is a sign or a white space in front of the second digit of a pair
C30_HexDigitsDecoded ==
  call.op = "hex_ctor" =>
    /\ AllHexDigits(call.text) =>
         /\ ret = "void"
         /\ bytes_.size = (Len(call.text) + 1) \div 2
         /\ \A k \in 1..bytes_.size :
              bytes_.buf[k] = HexByteOf(call.text, k)
    /\ (/\ ~AllHexDigits(call.text)
        /\ \A i \in 1..Len(call.text) :
             ~isxdigit(call.text[i]) =>
               ~(/\ i % 2 = 1
                 /\ i < Len(call.text)
                 /\ isxdigit(call.text[i + 1])
                 /\ call.text[i] \in {"+", "-", " "}))
         => ret = "runtime_error"

\* the text "-5" has been accepted and has given the one byte 0xFB
C30_SignAccepted ==
  /\ call.op = "hex_ctor"
  /\ call.text = <<"-", "5">>
  /\ ret = "void"
  /\ Elems(bytes_) = <<251>>

\* the text "a5F" has given the two bytes 0xA5 0x0F
C30_OddDigitsDecoded ==
  /\ call.op = "hex_ctor"
  /\ call.text = <<"a", "5", "F">>
  /\ ret = "void"
  /\ Elems(bytes_) = <<165, 15>>

====
